---------------------------- MODULE Spec2Model ----------------------------
(***************************************************************************)
(* Model of .github/scripts/check_approvals.py: the CODEOWNERS-DWH parser, *)
(* the collection of changed files and approvals, the per-file coverage    *)
(* check and the verdict of main.                                          *)
(*                                                                         *)
(* A Python str is a sequence of one-character strings, so that replace,   *)
(* split, strip, shlex.split and pathlib's matching are modelled by what   *)
(* they do to the characters.                                              *)
(***************************************************************************)
EXTENDS Integers, Sequences, FiniteSets, TLC

(***************************************************************************)
(* Bounds of the model.                                                    *)
(***************************************************************************)
\* most lines of a CODEOWNERS-DWH file
MaxLines == 2
\* most pages the REST API serves for one listing
MaxPages == 2
\* most reviews of a pull request
MaxReviews == 3
\* most changed files of a pull request
MaxFiles == 2

(***************************************************************************)
(* Input alphabet: users, lines of the rule file, changed files.           *)
(***************************************************************************)
alice ==
    <<"a", "l", "i", "c", "e">>

bob ==
    <<"b", "o", "b">>

Line_StarAlice ==
    <<"*", " ", "@", "a", "l", "i", "c", "e">>

Line_DocsBob ==
    <<"/", "d", "o", "c", "s", "/", "*", "*", " ", "@", "b", "o", "b">>

Line_FooAlice ==
    <<"f", "o", "o", ".", "t", "x", "t", " ", "@", "a", "l", "i", "c", "e">>

Line_RootFooBob ==
    <<"/", "f", "o", "o", ".", "t", "x", "t", " ", "@", "b", "o", "b">>

Line_SrcBob ==
    <<"s", "r", "c", "/", "*", "*", " ", "@", "b", "o", "b">>

Line_TeamAndAlice ==
    <<"*", " ", "@", "o", "r", "g", "/", "t", "e", "a", "m", " ", "@", "a", "l", "i", "c", "e">>

Line_TeamOnly ==
    <<"*", " ", "@", "o", "r", "g", "/", "t", "e", "a", "m">>

Line_BadQuote ==
    <<"\"", "a", " ", "@", "b", "o", "b">>

Line_EscapedHash ==
    <<"a", "\\", "#", "b", " ", "@", "b", "o", "b">>

Line_RootOnly ==
    <<"/", " ", "@", "a", "l", "i", "c", "e">>

Line_Continued ==
    <<"*", " ", "@", "b", "o", "b", " ", "\\">>

Line_Comment ==
    <<"#", "c">>

File_DocsReadme ==
    <<"d", "o", "c", "s", "/", "r", "e", "a", "d", "m", "e", ".", "m", "d">>

File_Foo ==
    <<"f", "o", "o", ".", "t", "x", "t">>

File_DirFoo ==
    <<"d", "i", "r", "/", "f", "o", "o", ".", "t", "x", "t">>

File_DirSubFoo ==
    <<"d", "i", "r", "/", "s", "u", "b", "/", "f", "o", "o", ".", "t", "x", "t">>

File_SrcA ==
    <<"s", "r", "c", "/", "a", ".", "g", "o">>

File_SrcSubB ==
    <<"s", "r", "c", "/", "s", "u", "b", "/", "b", ".", "g", "o">>

File_Src ==
    <<"s", "r", "c">>

LineSet ==
    { Line_StarAlice, Line_DocsBob, Line_FooAlice, Line_RootFooBob, Line_SrcBob,
      Line_TeamAndAlice, Line_TeamOnly, Line_BadQuote, Line_EscapedHash,
      Line_RootOnly, Line_Continued, Line_Comment }

RECURSIVE JoinLines(_)
\* the text of a file holding the given lines
JoinLines(ls) ==
    IF Len(ls) = 0 THEN <<>>
    ELSE IF Len(ls) = 1 THEN ls[1]
    ELSE ls[1] \o <<"\n">> \o JoinLines(Tail(ls))

LineSeqs == UNION { [1..n -> LineSet] : n \in 1..MaxLines }

\* the texts .github/CODEOWNERS-DWH may hold
CodeownersTexts == { JoinLines(ls) : ls \in LineSeqs }

(***************************************************************************)
(* str methods used by parse_codeowners.                                   *)
(***************************************************************************)
Whitespace == {" ", "\t", "\n", "\r"}

RECURSIVE ReplaceContinuation(_)
\* content.replace('\\\n', ' ')
ReplaceContinuation(s) ==
    IF Len(s) = 0 THEN <<>>
    ELSE IF Len(s) >= 2 /\ s[1] = "\\" /\ s[2] = "\n"
         THEN <<" ">> \o ReplaceContinuation(SubSeq(s, 3, Len(s)))
         ELSE <<s[1]>> \o ReplaceContinuation(Tail(s))

RECURSIVE FindFrom(_, _, _)
\* index of the first occurrence of character c in s at or after index i, 0
\* when there is none
FindFrom(s, c, i) ==
    IF i > Len(s) THEN 0 ELSE IF s[i] = c THEN i ELSE FindFrom(s, c, i + 1)

\* index of the first occurrence of character c in s, 0 when there is none
Find(s, c) == FindFrom(s, c, 1)

RECURSIVE SplitLines(_)
\* str.splitlines()
SplitLines(s) ==
    IF Len(s) = 0 THEN <<>>
    ELSE LET i == Find(s, "\n")
         IN  IF i = 0 THEN <<s>>
             ELSE <<SubSeq(s, 1, i - 1)>> \o SplitLines(SubSeq(s, i + 1, Len(s)))

\* line.split('#', 1)[0]
CutComment(line) ==
    LET i == Find(line, "#")
    IN  IF i = 0 THEN line ELSE SubSeq(line, 1, i - 1)

\* str.strip()
Strip(s) ==
    IF \A i \in 1..Len(s) : s[i] \in Whitespace THEN <<>>
    ELSE LET a == CHOOSE i \in 1..Len(s) :
                      s[i] \notin Whitespace /\ \A j \in 1..(i - 1) : s[j] \in Whitespace
             b == CHOOSE i \in 1..Len(s) :
                      s[i] \notin Whitespace /\ \A j \in (i + 1)..Len(s) : s[j] \in Whitespace
         IN  SubSeq(s, a, b)

\* s.startswith(prefix)
StartsWith(s, prefix) ==
    Len(s) >= Len(prefix) /\ SubSeq(s, 1, Len(prefix)) = prefix

\* s.endswith(suffix)
EndsWith(s, suffix) ==
    Len(s) >= Len(suffix) /\ SubSeq(s, Len(s) - Len(suffix) + 1, Len(s)) = suffix

\* o.replace('@', '')
RemoveAt(o) == SelectSeq(o, LAMBDA c : c # "@")

(***************************************************************************)
(* shlex.split(line): posix mode, whitespace_split, no commenters.         *)
(***************************************************************************)
Quotes == {"'", "\""}
Escape == {"\\"}
EscapedQuotes == {"\""}

\* the end of read_token: an empty unquoted token is the end of the input
Emit(parts, token, quoted) ==
    IF token = <<>> /\ ~quoted THEN parts ELSE Append(parts, token)

RECURSIVE ReadToken(_, _, _, _, _, _, _)
\* shlex.read_token, called until the input ends: s is read from index i in
\* lexer state `state`; a break of the loop emits the token and starts the next
ReadToken(s, i, state, escapedstate, token, quoted, parts) ==
    LET eof == i > Len(s)
        nextchar == IF eof THEN "" ELSE s[i]
        emits == token # <<>> \/ quoted
    IN
    IF state = " " THEN
        IF eof THEN [ok |-> TRUE, parts |-> Emit(parts, token, quoted)]
        ELSE IF nextchar \in Whitespace THEN
            IF emits
            THEN ReadToken(s, i + 1, state, " ", <<>>, FALSE, Emit(parts, token, quoted))
            ELSE ReadToken(s, i + 1, state, escapedstate, token, quoted, parts)
        ELSE IF nextchar \in Escape THEN
            ReadToken(s, i + 1, nextchar, "a", token, quoted, parts)
        ELSE IF nextchar \in Quotes THEN
            ReadToken(s, i + 1, nextchar, escapedstate, token, quoted, parts)
        ELSE ReadToken(s, i + 1, "a", escapedstate, <<nextchar>>, quoted, parts)
    ELSE IF state \in Quotes THEN
        IF eof THEN [ok |-> FALSE, parts |-> <<>>]
        ELSE IF nextchar = state THEN
            ReadToken(s, i + 1, "a", escapedstate, token, TRUE, parts)
        ELSE IF nextchar \in Escape /\ state \in EscapedQuotes THEN
            ReadToken(s, i + 1, nextchar, state, token, TRUE, parts)
        ELSE ReadToken(s, i + 1, state, escapedstate, Append(token, nextchar), TRUE, parts)
    ELSE IF state \in Escape THEN
        IF eof THEN [ok |-> FALSE, parts |-> <<>>]
        ELSE LET kept == IF escapedstate \in Quotes /\ nextchar # state
                            /\ nextchar # escapedstate
                         THEN Append(token, state) ELSE token
             IN  ReadToken(s, i + 1, escapedstate, escapedstate,
                           Append(kept, nextchar), quoted, parts)
    ELSE
        IF eof THEN [ok |-> TRUE, parts |-> Emit(parts, token, quoted)]
        ELSE IF nextchar \in Whitespace THEN
            IF emits
            THEN ReadToken(s, i + 1, " ", " ", <<>>, FALSE, Emit(parts, token, quoted))
            ELSE ReadToken(s, i + 1, " ", escapedstate, token, quoted, parts)
        ELSE IF nextchar \in Quotes THEN
            ReadToken(s, i + 1, nextchar, escapedstate, token, quoted, parts)
        ELSE IF nextchar \in Escape THEN
            ReadToken(s, i + 1, nextchar, "a", token, quoted, parts)
        ELSE ReadToken(s, i + 1, state, escapedstate, Append(token, nextchar), quoted, parts)

\* shlex.split(line): ok is FALSE when it raises ValueError
ShlexSplit(line) == ReadToken(line, 1, " ", " ", <<>>, FALSE, <<>>)

(***************************************************************************)
(* parse_codeowners: one logical line.                                     *)
(***************************************************************************)
Star == <<"*">>
StarStar == <<"*", "*">>

\* lines 101-109: the patterns a raw pattern stands for
PatternsToCheck(raw_pattern) ==
    IF raw_pattern = Star THEN <<Star>>
    ELSE IF raw_pattern = StarStar THEN <<StarStar>>
    ELSE IF StartsWith(raw_pattern, <<"/">>) THEN <<Tail(raw_pattern)>>
    ELSE <<raw_pattern, <<"*", "*", "/">> \o raw_pattern>>

\* lines 113-117: '.../**' becomes '.../**/*'
FinalPattern(p) ==
    IF EndsWith(p, <<"/", "*", "*">>) /\ p # StarStar THEN p \o <<"/", "*">> ELSE p

\* lines 111-117
FinalPatterns(raw_pattern) ==
    LET ptc == PatternsToCheck(raw_pattern)
    IN  [k \in 1..Len(ptc) |-> FinalPattern(ptc[k])]

\* line 120 without its filter: team owners are kept
Owners_KeepTeams(owner_strings) ==
    { RemoveAt(owner_strings[k]) : k \in 1..Len(owner_strings) }

\* line 120: team owners (with a '/') are dropped, every '@' is removed
Owners(owner_strings) ==
    { RemoveAt(owner_strings[k]) :
        k \in { j \in 1..Len(owner_strings) : Find(owner_strings[j], "/") = 0 } }

\* lines 85-126: what one iteration of the loop does with a line whose comment
\* is cut and whose ends are stripped
ParsedStripped(line) ==
    LET sp == ShlexSplit(line)
        parts == sp.parts
        owners == Owners(Tail(parts))
    IN  IF line = <<>> THEN [kind |-> "blank", rules |-> <<>>]
        ELSE IF ~sp.ok THEN [kind |-> "malformed", rules |-> <<>>]
        ELSE IF parts = <<>> THEN [kind |-> "blank", rules |-> <<>>]
        ELSE IF owners = {} THEN [kind |-> "no_owners", rules |-> <<>>]
        ELSE [kind |-> "rule",
              rules |-> << [patterns |-> FinalPatterns(parts[1]), owners |-> owners] >>]

\* lines 84-126: what one iteration of the loop does with a logical line
ParsedLine(rawline) == ParsedStripped(Strip(CutComment(rawline)))

\* lines 81-83: the logical lines of the file
LogicalLines(text) == SplitLines(ReplaceContinuation(text))

RECURSIVE ParseLines(_)
\* lines 83-126: the loop over the logical lines, from first to last
ParseLines(ls) ==
    IF ls = <<>> THEN <<>> ELSE ParsedLine(ls[1]).rules \o ParseLines(Tail(ls))

\* parse_codeowners: the rules of a text
ParseCodeowners(text) == ParseLines(LogicalLines(text))

(***************************************************************************)
(* pathlib: PurePath parsing and PurePath.match, fnmatch on one segment.   *)
(***************************************************************************)
RECURSIVE SplitSlash(_)
\* s.split('/')
SplitSlash(s) ==
    LET i == Find(s, "/")
    IN  IF i = 0 THEN <<s>>
        ELSE <<SubSeq(s, 1, i - 1)>> \o SplitSlash(SubSeq(s, i + 1, Len(s)))

\* the parts of a relative path: empty and '.' segments are dropped
PathParts(s) == SelectSeq(SplitSlash(s), LAMBDA seg : seg # <<>> /\ seg # <<".">>)

RECURSIVE FnMatch(_, _)
\* fnmatch.fnmatchcase(name, pat) for the wildcards '*' and '?'; no pattern of
\* LineSet holds a '[' class
FnMatch(name, pat) ==
    IF pat = <<>> THEN name = <<>>
    ELSE IF pat[1] = "*"
         THEN FnMatch(name, Tail(pat)) \/ (name # <<>> /\ FnMatch(Tail(name), pat))
    ELSE IF name = <<>> THEN FALSE
    ELSE (pat[1] = "?" \/ pat[1] = name[1]) /\ FnMatch(Tail(name), Tail(pat))

\* PurePath.match raises ValueError("empty pattern")
EmptyPattern(pattern) == PathParts(pattern) = <<>>

\* PurePath.match(pattern) for a relative pattern: segment by segment from the
\* right, '**' being an ordinary '*'. The changed files and the patterns of
\* LineSet are relative: no pattern keeps a root.
PathMatch(file_path, pattern) ==
    LET parts == PathParts(file_path)
        pat_parts == PathParts(pattern)
        n == Len(parts)
        m == Len(pat_parts)
    IN  /\ m <= n
        /\ \A k \in 0..(m - 1) : FnMatch(parts[n - k], pat_parts[m - k])

(***************************************************************************)
(* check_file_coverage: the search for the owners of one file.             *)
(***************************************************************************)
RECURSIVE MatchPatterns(_, _)
\* lines 182-185: the patterns of a rule, tried in order
MatchPatterns(file_path, patterns) ==
    IF patterns = <<>> THEN "no_match"
    ELSE IF EmptyPattern(patterns[1]) THEN "raise"
    ELSE IF PathMatch(file_path, patterns[1]) THEN "match"
    ELSE MatchPatterns(file_path, Tail(patterns))

\* list(reversed(rules))
Reversed(s) == [k \in 1..Len(s) |-> s[Len(s) - k + 1]]

RECURSIVE ScanRules(_, _)
\* lines 180-187: the first rule of reversed_rules that matches, with a
\* non-empty owner set (an empty set is falsy, the scan goes on)
ScanRules(file_path, reversed_rules) ==
    IF reversed_rules = <<>> THEN [kind |-> "none", owners |-> {}]
    ELSE LET rule == reversed_rules[1]
             m == MatchPatterns(file_path, rule.patterns)
         IN  IF m = "raise" THEN [kind |-> "raise", owners |-> {}]
             ELSE IF m = "match" /\ rule.owners # {}
                  THEN [kind |-> "found", owners |-> rule.owners]
             ELSE ScanRules(file_path, Tail(reversed_rules))

\* lines 177-187 without the reversal: the first matching rule wins
FindOwners_FirstMatch(file_path, rule_list) == ScanRules(file_path, rule_list)

\* lines 177-187
FindOwners(file_path, rule_list) == ScanRules(file_path, Reversed(rule_list))

(***************************************************************************)
(* Inputs of the REST listings.                                            *)
(***************************************************************************)
Users == {alice, bob}

ReviewStates == {"APPROVED", "CHANGES_REQUESTED", "COMMENTED"}

\* a review as the reviews listing returns it: review['user']['login'], review['state']
Reviews == [login : Users, state : ReviewStates]

FileSet ==
    { File_DocsReadme, File_Foo, File_DirFoo, File_DirSubFoo, File_SrcA,
      File_SrcSubB, File_Src }

\* a page of the files listing, the pull request having room for `room` more files
FilePages(room) == UNION { [1..n -> FileSet] : n \in 0..room }

\* a page of the reviews listing, the pull request having room for `room` more reviews
ReviewPages(room) == UNION { [1..n -> Reviews] : n \in 0..room }

\* lines 160-164: the logins of the APPROVED reviews of a page
ApprovedInPage(data) ==
    { data[k].login : k \in { j \in 1..Len(data) : data[j].state = "APPROVED" } }

(***************************************************************************)
(* State.                                                                  *)
(***************************************************************************)
VARIABLES
    pc,                   \* where main is
    content,              \* parse_codeowners: the text read from the file
    lines,                \* parse_codeowners: processed_content.splitlines()
    line_number,          \* parse_codeowners: the loop's position
    rules,                \* the rule list built by parse_codeowners
    next_url,             \* get_changed_files, get_approved_users: a page is left
    page,                 \* pages fetched by the listing under way
    changed_files,        \* all_files of get_changed_files
    reviews,              \* every review the reviews listing has served so far
    approved_users,       \* all_approved_users of get_approved_users
    file_index,           \* check_file_coverage: the loop's position
    uncovered_files_list, \* check_file_coverage: the entries of the result
    covered_log           \* check_file_coverage: the 'is covered' lines logged

vars ==
    << pc, content, lines, line_number, rules, next_url, page, changed_files,
       reviews, approved_users, file_index, uncovered_files_list, covered_log >>

parse_vars == << content, lines, line_number >>
listing_vars == << next_url, page >>
check_vars == << file_index, uncovered_files_list, covered_log >>

\* main, line 215: about to call parse_codeowners
Init ==
    /\ pc = "parse_open"
    /\ content = <<>>
    /\ lines = <<>>
    /\ line_number = 0
    /\ rules = <<>>
    /\ next_url = FALSE
    /\ page = 0
    /\ changed_files = <<>>
    /\ reviews = <<>>
    /\ approved_users = {}
    /\ file_index = 0
    /\ uncovered_files_list = <<>>
    /\ covered_log = <<>>

(***************************************************************************)
(* parse_codeowners.                                                       *)
(***************************************************************************)
\* lines 75-83: the file is read and cut into logical lines
OpenCodeowners ==
    /\ pc = "parse_open"
    /\ \E text \in CodeownersTexts :
          /\ content' = text
          /\ lines' = LogicalLines(text)
    /\ line_number' = 1
    /\ pc' = "parse_loop"
    /\ UNCHANGED << rules, listing_vars, changed_files, reviews, approved_users, check_vars >>

\* lines 128-129: FileNotFoundError
OpenFails ==
    /\ pc = "parse_open"
    /\ pc' = "exit_error"
    /\ UNCHANGED << parse_vars, rules, listing_vars, changed_files, reviews,
                    approved_users, check_vars >>

\* lines 83-126 with 'break' for the 'continue' of line 93: a malformed line
\* ends the loop
ParseLine_StopsAtMalformed ==
    /\ pc = "parse_loop"
    /\ line_number <= Len(lines)
    /\ rules' = rules \o ParsedLine(lines[line_number]).rules
    /\ line_number' = IF ParsedLine(lines[line_number]).kind = "malformed"
                      THEN Len(lines) + 1 ELSE line_number + 1
    /\ UNCHANGED << pc, content, lines, listing_vars, changed_files, reviews,
                    approved_users, check_vars >>

\* lines 83-126: one iteration of the loop over the logical lines
ParseLine ==
    /\ pc = "parse_loop"
    /\ line_number <= Len(lines)
    /\ rules' = rules \o ParsedLine(lines[line_number]).rules
    /\ line_number' = line_number + 1
    /\ UNCHANGED << pc, content, lines, listing_vars, changed_files, reviews,
                    approved_users, check_vars >>

\* line 133: the rules are returned to main, which calls get_changed_files
ParseReturn ==
    /\ pc = "parse_loop"
    /\ line_number > Len(lines)
    /\ pc' = "get_files"
    /\ content' = <<>>
    /\ lines' = <<>>
    /\ line_number' = 0
    /\ next_url' = TRUE
    /\ page' = 0
    /\ UNCHANGED << rules, changed_files, reviews, approved_users, check_vars >>

(***************************************************************************)
(* get_changed_files, get_approved_users.                                  *)
(***************************************************************************)
\* lines 140-146: one page of changed files
FetchFilesPage ==
    /\ pc = "get_files"
    /\ next_url
    /\ \E data \in FilePages(MaxFiles - Len(changed_files)), more \in BOOLEAN :
          /\ more => page + 1 < MaxPages
          /\ changed_files' = changed_files \o data
          /\ next_url' = more
    /\ page' = page + 1
    /\ UNCHANGED << pc, parse_vars, rules, reviews, approved_users, check_vars >>

\* line 149, then main calls get_approved_users
FilesReturn ==
    /\ pc = "get_files"
    /\ ~next_url
    /\ pc' = "get_reviews"
    /\ next_url' = TRUE
    /\ page' = 0
    /\ UNCHANGED << parse_vars, rules, changed_files, reviews, approved_users, check_vars >>

\* lines 156-167 with a review that requests changes taking the approval back
FetchReviewsPage_Retracts ==
    /\ pc = "get_reviews"
    /\ next_url
    /\ \E data \in ReviewPages(MaxReviews - Len(reviews)), more \in BOOLEAN :
          /\ more => page + 1 < MaxPages
          /\ approved_users' =
                (approved_users \cup ApprovedInPage(data))
                    \ { data[k].login :
                          k \in { j \in 1..Len(data) : data[j].state = "CHANGES_REQUESTED" } }
          /\ reviews' = reviews \o data
          /\ next_url' = more
    /\ page' = page + 1
    /\ UNCHANGED << pc, parse_vars, rules, changed_files, check_vars >>

\* lines 156-167: one page of reviews
FetchReviewsPage ==
    /\ pc = "get_reviews"
    /\ next_url
    /\ \E data \in ReviewPages(MaxReviews - Len(reviews)), more \in BOOLEAN :
          /\ more => page + 1 < MaxPages
          /\ approved_users' = approved_users \cup ApprovedInPage(data)
          /\ reviews' = reviews \o data
          /\ next_url' = more
    /\ page' = page + 1
    /\ UNCHANGED << pc, parse_vars, rules, changed_files, check_vars >>

\* line 170, then main calls check_file_coverage
ReviewsReturn ==
    /\ pc = "get_reviews"
    /\ ~next_url
    /\ pc' = "check"
    /\ reviews' = <<>>
    /\ page' = 0
    /\ file_index' = 1
    /\ UNCHANGED << parse_vars, rules, next_url, changed_files, approved_users,
                    uncovered_files_list, covered_log >>

\* lines 33-36 and 231-232: make_request raises, main fails
RequestFails ==
    /\ pc \in {"get_files", "get_reviews"}
    /\ next_url
    /\ pc' = "exit_error"
    /\ UNCHANGED << parse_vars, rules, listing_vars, changed_files, reviews,
                    approved_users, check_vars >>

(***************************************************************************)
(* check_file_coverage and the verdict of main.                            *)
(***************************************************************************)
\* lines 179-198: one iteration of the loop over the changed files
CheckFile ==
    /\ pc = "check"
    /\ file_index <= Len(changed_files)
    /\ LET file_path == changed_files[file_index]
           found == FindOwners(file_path, rules)
           intersection == approved_users \cap found.owners
       IN  \/ /\ found.kind = "raise"
              /\ pc' = "exit_error"
              /\ UNCHANGED check_vars
           \/ /\ found.kind = "none"
              /\ uncovered_files_list' =
                    Append(uncovered_files_list,
                           [file |-> file_path, reason |-> "no_owner", owners |-> {}])
              /\ file_index' = file_index + 1
              /\ UNCHANGED << pc, covered_log >>
           \/ /\ found.kind = "found"
              /\ intersection = {}
              /\ uncovered_files_list' =
                    Append(uncovered_files_list,
                           [file |-> file_path, reason |-> "requires",
                            owners |-> found.owners])
              /\ file_index' = file_index + 1
              /\ UNCHANGED << pc, covered_log >>
           \/ /\ found.kind = "found"
              /\ intersection # {}
              /\ covered_log' = Append(covered_log, [file |-> file_path, by |-> intersection])
              /\ file_index' = file_index + 1
              /\ UNCHANGED << pc, uncovered_files_list >>
    /\ UNCHANGED << parse_vars, rules, listing_vars, changed_files, reviews, approved_users >>

\* lines 200 and 218-229: the list is returned and main decides
Verdict ==
    /\ pc = "check"
    /\ file_index > Len(changed_files)
    /\ pc' = IF uncovered_files_list # <<>> THEN "exit_not_covered" ELSE "exit_ok"
    /\ UNCHANGED << parse_vars, rules, listing_vars, changed_files, reviews,
                    approved_users, check_vars >>

(***************************************************************************)
(* Specifications.                                                         *)
(***************************************************************************)
NextParse == OpenCodeowners \/ OpenFails \/ ParseLine \/ ParseReturn

NextListings ==
    FetchFilesPage \/ FilesReturn \/ FetchReviewsPage \/ ReviewsReturn \/ RequestFails

NextCoverage == CheckFile \/ Verdict

Next == NextParse \/ NextListings \/ NextCoverage

\* the whole of main
Spec == Init /\ [][Next]_vars

\* parse_codeowners on every text
SpecParse == Init /\ [][NextParse]_vars

\* the rule lines and the changed files that the coverage check is run with
\* in every combination
RuleLineSet == { Line_StarAlice, Line_RootFooBob, Line_SrcBob, Line_RootOnly }

RuleLists ==
    { ParseCodeowners(JoinLines(ls)) :
        ls \in UNION { [1..n -> RuleLineSet] : n \in 0..MaxLines } }

CheckedFileSet == { File_Foo, File_SrcSubB, File_DocsReadme }

FileSeqs == UNION { [1..n -> CheckedFileSet] : n \in 0..MaxFiles }

\* the rule files of the examples: '* @alice' then '/docs/** @bob', and the
\* single lines 'foo.txt @alice', '/foo.txt @bob', 'src/** @bob'
ExampleRuleLists ==
    { ParseCodeowners(JoinLines(<<Line_StarAlice, Line_DocsBob>>)),
      ParseCodeowners(Line_FooAlice),
      ParseCodeowners(Line_RootFooBob),
      ParseCodeowners(Line_SrcBob) }

\* the examples are run on one changed file
ExampleFileSeqs == { <<f>> : f \in FileSet }

\* main, line 218: about to call check_file_coverage
InitCoverage ==
    /\ pc = "check"
    /\ content = <<>>
    /\ lines = <<>>
    /\ line_number = 0
    /\ \/ rules \in RuleLists /\ changed_files \in FileSeqs
       \/ rules \in ExampleRuleLists /\ changed_files \in ExampleFileSeqs
    /\ next_url = FALSE
    /\ page = 0
    /\ reviews = <<>>
    /\ approved_users \in SUBSET Users
    /\ file_index = 1
    /\ uncovered_files_list = <<>>
    /\ covered_log = <<>>

\* check_file_coverage and the verdict, on every rule list, file list and approver set
SpecCoverage == InitCoverage /\ [][NextCoverage]_vars

\* main, line 217: about to call get_approved_users
InitReviews ==
    /\ pc = "get_reviews"
    /\ content = <<>>
    /\ lines = <<>>
    /\ line_number = 0
    /\ rules = <<>>
    /\ next_url = TRUE
    /\ page = 0
    /\ changed_files = <<>>
    /\ reviews = <<>>
    /\ approved_users = {}
    /\ file_index = 0
    /\ uncovered_files_list = <<>>
    /\ covered_log = <<>>

NextReviews == FetchReviewsPage \/ ReviewsReturn \/ RequestFails

\* get_approved_users on every sequence of review pages
SpecReviews == InitReviews /\ [][NextReviews]_vars

(***************************************************************************)
(* Properties.                                                             *)
(***************************************************************************)
\* parse_codeowners is about to return: content and rules are both at hand
ParseDone == pc = "parse_loop" /\ line_number > Len(lines)

\* check_file_coverage has returned its list to main
CheckReturned == pc \in {"exit_ok", "exit_not_covered"}

Range(s) == { s[k] : k \in 1..Len(s) }

\* a rule matches a file when one of its patterns does
Matches(file_path, rule) ==
    \E k \in 1..Len(rule.patterns) :
        ~EmptyPattern(rule.patterns[k]) /\ PathMatch(file_path, rule.patterns[k])

MatchingRules(file_path) == { i \in 1..Len(rules) : Matches(file_path, rules[i]) }

\* the matching rule that is latest in the order of the source
LatestMatch(file_path) ==
    CHOOSE i \in MatchingRules(file_path) : \A j \in MatchingRules(file_path) : j <= i

\* no rule matches the file, or no approver owns it by its latest matching rule
Uncovered(file_path) ==
    \/ MatchingRules(file_path) = {}
    \/ approved_users \cap rules[LatestMatch(file_path)].owners = {}

\* the file was resolved to an owner set: it is logged covered or listed 'requires'
ResolvedToOwners(file_path) ==
    \/ \E k \in 1..Len(covered_log) : covered_log[k].file = file_path
    \/ \E k \in 1..Len(uncovered_files_list) :
          /\ uncovered_files_list[k].file = file_path
          /\ uncovered_files_list[k].reason = "requires"

\* the file is listed 'has NO owner assigned'
ReportedNoOwner(file_path) ==
    \E k \in 1..Len(uncovered_files_list) :
        /\ uncovered_files_list[k].file = file_path
        /\ uncovered_files_list[k].reason = "no_owner"

\* C1: with the rules of '* @alice' then '/docs/** @bob', the single changed
\* file docs/readme.md is uncovered, requiring bob, when alice approved, and
\* covered when bob approved.
C1_CoverageExample ==
    ( /\ CheckReturned
      /\ rules = ParseCodeowners(JoinLines(<<Line_StarAlice, Line_DocsBob>>))
      /\ changed_files = <<File_DocsReadme>> )
    => /\ approved_users = {alice} =>
            uncovered_files_list =
                << [file |-> File_DocsReadme, reason |-> "requires", owners |-> {bob}] >>
       /\ approved_users = {bob} => uncovered_files_list = <<>>

\* C2: every file that check_file_coverage resolves is resolved with the owner
\* set of the matching rule that is latest in the source, however many earlier
\* rules match; a file is listed without owner only when no rule matches it.
C2_LastMatchWins ==
    /\ \A k \in 1..Len(uncovered_files_list) :
          LET e == uncovered_files_list[k]
          IN  /\ e.reason = "requires" =>
                    /\ MatchingRules(e.file) # {}
                    /\ e.owners = rules[LatestMatch(e.file)].owners
              /\ e.reason = "no_owner" => MatchingRules(e.file) = {}
    /\ \A k \in 1..Len(covered_log) :
          LET e == covered_log[k]
          IN  /\ MatchingRules(e.file) # {}
              /\ e.by = approved_users \cap rules[LatestMatch(e.file)].owners

\* a file was resolved with the owners of its latest matching rule although an
\* earlier rule with other owners matches it too
C2_LaterRuleOverrides ==
    \E k \in 1..Len(uncovered_files_list) :
        LET e == uncovered_files_list[k]
        IN  /\ e.reason = "requires"
            /\ \E i \in MatchingRules(e.file) :
                  /\ i < LatestMatch(e.file)
                  /\ rules[i].owners # e.owners
                  /\ approved_users \cap rules[i].owners # {}

\* C3: the rule of the unanchored 'foo.txt' matches foo.txt and dir/sub/foo.txt;
\* the rule of the anchored '/foo.txt' matches foo.txt and not dir/foo.txt.
C3_PatternExpansion ==
    CheckReturned =>
        /\ rules = ParseCodeowners(Line_FooAlice) =>
              \A f \in {File_Foo, File_DirSubFoo} \cap Range(changed_files) :
                  ResolvedToOwners(f)
        /\ rules = ParseCodeowners(Line_RootFooBob) =>
              /\ File_Foo \in Range(changed_files) => ResolvedToOwners(File_Foo)
              /\ File_DirFoo \in Range(changed_files) => ReportedNoOwner(File_DirFoo)

\* C4: the rule of 'src/**' matches src/a.go and src/sub/b.go and does not
\* match the path src.
C4_DirectoryWildcard ==
    (CheckReturned /\ rules = ParseCodeowners(Line_SrcBob)) =>
        /\ \A f \in {File_SrcA, File_SrcSubB} \cap Range(changed_files) :
              ResolvedToOwners(f)
        /\ File_Src \in Range(changed_files) => ReportedNoOwner(File_Src)

\* the line tokenises and one of its owner tokens is no team token
HasIndividualOwner(rawline) ==
    LET sp == ShlexSplit(Strip(CutComment(rawline)))
    IN  /\ sp.ok
        /\ \E j \in 2..Len(sp.parts) : Find(sp.parts[j], "/") = 0

\* C5: every rule of parse_codeowners has a non-empty owner set without any
\* owner that holds a '/'; only the lines with an owner token that is no team
\* token add a rule; '* @org/team @alice' yields the owners {alice}.
C5_TeamOwnersFiltered ==
    /\ \A k \in 1..Len(rules) :
          /\ rules[k].owners # {}
          /\ \A o \in rules[k].owners : Find(o, "/") = 0
    /\ ParseDone =>
          Len(rules) = Cardinality({ k \in 1..Len(lines) : HasIndividualOwner(lines[k]) })
    /\ (ParseDone /\ content = Line_TeamAndAlice) =>
          rules = << [patterns |-> <<Star>>, owners |-> {alice}] >>

\* a file with a line of team owners only, and a line with a team owner and a
\* user, was parsed
C5_TeamLinesParsed ==
    /\ ParseDone
    /\ \E i, j \in 1..Len(lines) :
          /\ lines[i] = Line_TeamOnly
          /\ lines[j] = Line_TeamAndAlice
    /\ Len(rules) = 1

\* the occurrences of x in the sequence s
Count(s, x) == Cardinality({ k \in 1..Len(s) : s[k] = x })

\* C6: every changed file gets exactly one resolution: 'no owner' exactly when
\* no rule matches it, 'requires' exactly when a rule matches and no approver
\* is an owner by the winning rule, covered exactly when one is.
C6_ExactlyOneResolution ==
    pc \in {"exit_ok", "exit_not_covered", "exit_error"} =>
        \A f \in Range(changed_files) :
            LET occurrences == Count(changed_files, f)
                covered == Count([k \in 1..Len(covered_log) |-> covered_log[k].file], f)
                no_owner ==
                    Cardinality({ k \in 1..Len(uncovered_files_list) :
                                    /\ uncovered_files_list[k].file = f
                                    /\ uncovered_files_list[k].reason = "no_owner" })
                requires ==
                    Cardinality({ k \in 1..Len(uncovered_files_list) :
                                    /\ uncovered_files_list[k].file = f
                                    /\ uncovered_files_list[k].reason = "requires" })
            IN  /\ covered + no_owner + requires = occurrences
                /\ no_owner = IF MatchingRules(f) = {} THEN occurrences ELSE 0
                /\ requires =
                      IF MatchingRules(f) # {} /\ Uncovered(f) THEN occurrences ELSE 0
                /\ covered = IF ~Uncovered(f) THEN occurrences ELSE 0

\* C7: check_file_coverage goes through every changed file: its list holds one
\* entry for each uncovered file, and none for a covered one, in the order of
\* the changed files, and main passes exactly when every file is covered.
C7_AllUncoveredReported ==
    pc \in {"exit_ok", "exit_not_covered", "exit_error"} =>
        /\ [k \in 1..Len(uncovered_files_list) |-> uncovered_files_list[k].file]
              = SelectSeq(changed_files, Uncovered)
        /\ pc = "exit_ok" <=> \A k \in 1..Len(changed_files) : ~Uncovered(changed_files[k])

\* shlex.split raises on the line
Malformed(rawline) == ParsedLine(rawline).kind = "malformed"

\* C8: a logical line that fails the shell-style tokenisation is skipped and
\* the parse goes on: the rules returned are those of the same text without
\* the line, in the order of the source.
C8_MalformedLineSkipped ==
    ParseDone =>
        rules = ParseCodeowners(JoinLines(SelectSeq(lines, LAMBDA l : ~Malformed(l))))

\* a malformed line was followed by a line that gave a rule
C8_RuleAfterMalformedLine ==
    /\ ParseDone
    /\ \E i, j \in 1..Len(lines) :
          /\ i < j
          /\ Malformed(lines[i])
          /\ ParsedLine(lines[j]).kind = "rule"
    /\ rules # <<>>

\* C9: while get_approved_users walks the pages the set of approved users only
\* grows, and it holds the users with a review whose state is APPROVED, whatever
\* the later reviews of the same user are.
C9_ApprovalsAccumulate ==
    /\ [](pc = "get_reviews" =>
            approved_users =
                { reviews[k].login :
                    k \in { j \in 1..Len(reviews) : reviews[j].state = "APPROVED" } })
    /\ [][approved_users \subseteq approved_users']_vars

\* the walk ended with a user approved whose later review requests changes
C9_ApprovedThenChangesRequested ==
    /\ pc = "get_reviews"
    /\ ~next_url
    /\ \E i, j \in 1..Len(reviews) :
          /\ i < j
          /\ reviews[i] = [login |-> alice, state |-> "APPROVED"]
          /\ reviews[j] = [login |-> alice, state |-> "CHANGES_REQUESTED"]
    /\ alice \in approved_users

RECURSIVE FirstUnescapedHash(_, _)
\* index of the first '#' of s, from index i on, that no backslash escapes;
\* 0 when there is none
FirstUnescapedHash(s, i) ==
    IF i > Len(s) THEN 0
    ELSE IF s[i] = "\\" THEN FirstUnescapedHash(s, i + 2)
    ELSE IF s[i] = "#" THEN i
    ELSE FirstUnescapedHash(s, i + 1)

\* the line up to its first unescaped '#'
CutUnescapedComment(line) ==
    LET i == FirstUnescapedHash(line, 1)
    IN  IF i = 0 THEN line ELSE SubSeq(line, 1, i - 1)

RECURSIVE RulesWithEscapedHashes(_)
\* the rules of the lines when only an unescaped '#' starts a comment
RulesWithEscapedHashes(ls) ==
    IF ls = <<>> THEN <<>>
    ELSE ParsedStripped(Strip(CutUnescapedComment(ls[1]))).rules
             \o RulesWithEscapedHashes(Tail(ls))

\* C10: a line is cut at its first unescaped '#': an escaped '#' stays in the
\* line and the line still gives its rule.
C10_EscapedHashKept ==
    ParseDone => rules = RulesWithEscapedHashes(lines)
=============================================================================
